---- MODULE Spec2Model ----
(***************************************************************************)
(* Jua Kali backend: registration, login and the token middleware, over    *)
(* the PostgreSQL tables users, artisan_details, artisan_skills, skills.   *)
(* Every request is one slot of Reqs; a handler advances at each awaited   *)
(* directory statement, each statement being one autocommitted step.       *)
(***************************************************************************)
EXTENDS Integers, Sequences, FiniteSets, TLC

\* ---------------------------------------------------------------- bounds
MaxReq == 2
MaxId == 2
MaxTime == 3601
\* calls of navigate are counted up to this many
MaxNavigations == 2

Reqs == 1..MaxReq

\* ------------------------------------------------------- JavaScript values
Undefined == "<undefined>"
Null == "<null>"

\* !v for the string-valued body fields
Falsy(v) == v \in {Undefined, Null, ""}

\* the values the browser code passes around: null, undefined, the text of a
\* token, any other text
JsNull == [null |-> TRUE]
JsUndefined == [undefined |-> TRUE]
Jwt(t) == [jwt |-> t]
Text(s) == [text |-> s]

\* !!v
Truthy(v) == v \notin {JsNull, JsUndefined, Text("")}

\* String(v), as localStorage.setItem applies it to the value it stores
JsString(v) ==
    IF v = JsUndefined THEN Text("undefined")
    ELSE IF v = JsNull THEN Text("null")
    ELSE v

\* data[name] of a parsed JSON object
Prop(data, name) == IF name \in DOMAIN data THEN data[name] ELSE JsUndefined

Emails == {"a@x", "b@x"}
Phones == {"0701", "0702"}
Passwords == {"pw1", "pw2"}
Salts == {"s1"}
TickSteps == {3599, 3601}

\* skills of a request body: undefined, a non-array value, or an array
SkUndefined == [kind |-> "undefined", items |-> <<>>]
SkString == [kind |-> "string", items |-> <<"Plumbing">>]
SkArray(s) == [kind |-> "array", items |-> s]
\* years_experience of a request body, as its JSON text (it may also be absent)
YearsInputs == {"2", "-1", "\"five\""}

\* ------------------------------------------------------------ the schema
\* INSERT INTO skills (name) VALUES ... : the SERIAL ids of two of the rows
SkillsTable == {[id |-> 1, name |-> "Plumbing"], [id |-> 3, name |-> "Carpentry"]}

\* ----------------------------------------------------------- the secret
jwtSecret == "server-secret"
OtherSecret == "other-secret"

\* expiresIn: '1h', in the seconds of the token's iat/exp
ExpiresIn == 3600

VARIABLES
    users,            \* rows of table users
    artisan_details,  \* rows of table artisan_details
    artisan_skills,   \* rows of table artisan_skills
    users_id_seq,     \* last value of the SERIAL sequence of users.id
    now,              \* the clock, in seconds
    pc,               \* per request: where its handler stands
    req,              \* per request: what the client sent
    loc,              \* per request: the handler's local variables
    res,              \* per request: the response sent, and req.user / next()
    browser           \* the React client: localStorage and the AuthProvider's state

vars == <<users, artisan_details, artisan_skills, users_id_seq, now, pc, req, loc, res,
         browser>>

\* ------------------------------------------------------ bcrypt (bcryptjs)
\* bcrypt.hash(password, salt): the digest embeds its salt
bcrypt_hash(password, salt) == [salt |-> salt, digest |-> <<salt, password>>]

\* variant: the comparison looks at the salt only
bcrypt_compare_SaltOnly(password, hash) == bcrypt_hash(password, hash.salt).salt = hash.salt

\* bcrypt.compare(password, hash): rehash with the embedded salt and compare
bcrypt_compare(password, hash) == bcrypt_hash(password, hash.salt) = hash

\* ------------------------------------------------- jsonwebtoken (HS256)
HS256(key, content) == [key |-> key, over |-> content, bits |-> 0]

TokenContent(t) == [user |-> t.user, iat |-> t.iat, exp |-> t.exp]

\* jwt.sign(payload, secret, { expiresIn: '1h' }) at clock t
jwt_sign(payloadUser, secret, t) ==
    LET c == [user |-> payloadUser, iat |-> t, exp |-> t + ExpiresIn]
    IN  [user |-> c.user, iat |-> c.iat, exp |-> c.exp, sig |-> HS256(secret, c)]

\* variant: verification with ignoreExpiration
jwt_verify_IgnoreExpiration(token, secret, t) ==
    IF token.sig # HS256(secret, TokenContent(token)) THEN "JsonWebTokenError"
    ELSE ""

\* variant: jwt.decode, which reads the payload without checking the signature
jwt_verify_DecodeOnly(token, secret, t) ==
    IF t >= token.exp THEN "TokenExpiredError"
    ELSE ""

\* jwt.verify(token, secret) at clock t: the error it throws, "" when none
jwt_verify(token, secret, t) ==
    IF token.sig # HS256(secret, TokenContent(token)) THEN "JsonWebTokenError"
    ELSE IF t >= token.exp THEN "TokenExpiredError"
    ELSE ""

\* --------------------------------------------------------------- responses
NoUser == <<>>
NoToken == <<>>

\* nothing sent yet, req.user unset, next() not called
NoRes == [status |-> 0, msg |-> "", token |-> NoToken, user |-> NoUser,
          reqUser |-> NoUser, next |-> 0]

\* res.status(s).json({ msg: m })
Json(s, m) == [NoRes EXCEPT !.status = s, !.msg = m]

NoLoc == [user_id |-> 0, skillIds |-> {}, err |-> ""]

\* ------------------------------------------------------ the auth middleware
\* the error the try block throws for these headers at clock t, "" when none
AuthCaught(headers, t) ==
    IF headers.xAuthToken = NoToken THEN ""
    ELSE jwt_verify(headers.xAuthToken[1], jwtSecret, t)

\* variant: the "Check if no token" test is missing, jwt.verify(undefined) throws
authMiddleware_NoTokenTest(headers, t) ==
    IF headers.xAuthToken = NoToken
    THEN Json(401, "Token is not valid")
    ELSE LET tok == headers.xAuthToken[1] IN
         IF jwt_verify(tok, jwtSecret, t) = ""
         THEN [NoRes EXCEPT !.reqUser = <<tok.user>>, !.next = 1]
         ELSE Json(401, "Token is not valid")

\* variant: req.user = decoded, the whole payload instead of its user member
authMiddleware_WholePayload(headers, t) ==
    IF headers.xAuthToken = NoToken
    THEN Json(401, "No token, authorization denied")
    ELSE LET tok == headers.xAuthToken[1] IN
         IF jwt_verify(tok, jwtSecret, t) = ""
         THEN [NoRes EXCEPT !.reqUser = <<TokenContent(tok)>>, !.next = 1]
         ELSE Json(401, "Token is not valid")

\* variant: the catch block tells an expired token from an invalid one
authMiddleware_TellsExpiry(headers, t) ==
    IF headers.xAuthToken = NoToken
    THEN Json(401, "No token, authorization denied")
    ELSE LET tok == headers.xAuthToken[1] IN
         IF jwt_verify(tok, jwtSecret, t) = ""
         THEN [NoRes EXCEPT !.reqUser = <<tok.user>>, !.next = 1]
         ELSE IF jwt_verify(tok, jwtSecret, t) = "TokenExpiredError"
         THEN Json(401, "Token expired")
         ELSE Json(401, "Token is not valid")

\* variant: the account of the payload is looked up and must still match it
authMiddleware_AccountLookup(headers, t) ==
    IF headers.xAuthToken = NoToken
    THEN Json(401, "No token, authorization denied")
    ELSE LET tok == headers.xAuthToken[1] IN
         IF /\ jwt_verify(tok, jwtSecret, t) = ""
            /\ \E u \in users : u.id = tok.user.id /\ u.email = tok.user.email
         THEN [NoRes EXCEPT !.reqUser = <<tok.user>>, !.next = 1]
         ELSE Json(401, "Token is not valid")

\* module.exports = function (req, res, next): the response it sends (status 0:
\* none), the req.user it attaches and the number of its calls of next()
authMiddleware(headers, t) ==
    IF headers.xAuthToken = NoToken
    THEN Json(401, "No token, authorization denied")
    ELSE LET tok == headers.xAuthToken[1] IN
         IF jwt_verify(tok, jwtSecret, t) = ""
         THEN [NoRes EXCEPT !.reqUser = <<tok.user>>, !.next = 1]
         ELSE Json(401, "Token is not valid")

\* --------------------------------------------------- the register handler
Range(s) == {s[i] : i \in DOMAIN s}

\* variant: the user_type test is missing
RegisterValidation_NoTypeTest(b) ==
    IF Falsy(b.full_name) \/ Falsy(b.email) \/ Falsy(b.phone_number)
       \/ Falsy(b.password) \/ Falsy(b.user_type)
    THEN "Please enter all required fields"
    ELSE IF b.user_type = "artisan"
            /\ (Falsy(b.location) \/ Falsy(b.bio) \/ b.skills.kind = "undefined"
                \/ b.skills.kind # "array" \/ Len(b.skills.items) = 0)
    THEN "Artisan registration requires location, bio, and at least one skill."
    ELSE ""

\* variant: the artisan test does not look at location
RegisterValidation_NoLocationTest(b) ==
    IF Falsy(b.full_name) \/ Falsy(b.email) \/ Falsy(b.phone_number)
       \/ Falsy(b.password) \/ Falsy(b.user_type)
    THEN "Please enter all required fields"
    ELSE IF b.user_type \notin {"client", "artisan"}
    THEN "Invalid user type specified"
    ELSE IF b.user_type = "artisan"
            /\ (Falsy(b.bio) \/ b.skills.kind = "undefined"
                \/ b.skills.kind # "array" \/ Len(b.skills.items) = 0)
    THEN "Artisan registration requires location, bio, and at least one skill."
    ELSE ""

\* 1. Basic Input Validation: the message of the 400 it returns, "" when none
RegisterValidation(b) ==
    IF Falsy(b.full_name) \/ Falsy(b.email) \/ Falsy(b.phone_number)
       \/ Falsy(b.password) \/ Falsy(b.user_type)
    THEN "Please enter all required fields"
    ELSE IF b.user_type \notin {"client", "artisan"}
    THEN "Invalid user type specified"
    ELSE IF b.user_type = "artisan"
            /\ (Falsy(b.location) \/ Falsy(b.bio) \/ b.skills.kind = "undefined"
                \/ b.skills.kind # "array" \/ Len(b.skills.items) = 0)
    THEN "Artisan registration requires location, bio, and at least one skill."
    ELSE ""

\* variant: the WHERE clause joins its two tests with AND
SelectUserExists_And(email, phone_number) ==
    {u \in users : u.email = email /\ u.phone_number = phone_number}

\* SELECT id FROM users WHERE email = $1 OR phone_number = $2
SelectUserExists(email, phone_number) ==
    {u \in users : u.email = email \/ u.phone_number = phone_number}

\* variant: phone_number is not declared UNIQUE
UsersUniqueViolation_EmailOnly(row) ==
    \E u \in users : u.email = row.email

\* variant: neither column is declared UNIQUE
UsersUniqueViolation_None(row) ==
    \E u \in users : u.id = row.id

\* email UNIQUE, phone_number UNIQUE: does inserting row violate them
UsersUniqueViolation(row) ==
    \E u \in users : u.email = row.email \/ u.phone_number = row.phone_number

\* a query parameter as the driver sends it: undefined becomes NULL
SqlParam(v) == IF v = Undefined THEN Null ELSE v

\* years_experience || 0
YearsOrZero(v) == IF v \in {Undefined, Null, "", "0"} THEN "0" ELSE v

\* the text of a parameter read as a PostgreSQL INTEGER
IsPgInteger(v) == v \in {"0", "2", "-1"}
PgInteger(v) == CASE v = "0" -> 0 [] v = "2" -> 2 [] v = "-1" -> 0 - 1

\* variant: the WHERE clause is missing
SelectSkillIds_AllRows(names) == {s.id : s \in SkillsTable}

\* SELECT id FROM skills WHERE name = ANY($1::text[])
SelectSkillIds(names) == {s.id : s \in {x \in SkillsTable : x.name \in Range(names)}}

\* 6. Generate JWT, and the 201 response of the callback
RegisterSuccess(b, user_id, t) ==
    [NoRes EXCEPT !.status = 201, !.msg = "User registered successfully!",
        !.token = <<jwt_sign([id |-> user_id, user_type |-> b.user_type, email |-> b.email],
                             jwtSecret, t)>>,
        !.user = <<[id |-> user_id, full_name |-> b.full_name, email |-> b.email,
                    phone_number |-> b.phone_number, user_type |-> b.user_type,
                    location |-> b.location]>>]

\* variant: the catch block sends err.message
ServerError_WithDetail == Json(500, "duplicate key value violates unique constraint")

\* catch (err) { res.status(500).json({ msg: 'Server error' }) }
ServerError == Json(500, "Server error")

NoReq == [kind |-> "none"]

\* the handler is left: its response is sent, its frame is gone; cause is the
\* err.message that the catch block logged ("" when nothing was caught)
Respond(r, response, cause) ==
    /\ pc' = [pc EXCEPT ![r] = "done"]
    /\ res' = [res EXCEPT ![r] = response]
    /\ loc' = [loc EXCEPT ![r] = [NoLoc EXCEPT !.err = cause]]
    /\ req' = [req EXCEPT ![r] = NoReq]

\* the handler awaits its next statement
Await(r, label) ==
    /\ pc' = [pc EXCEPT ![r] = label]
    /\ UNCHANGED <<res, req>>

\* ----------------------------------------------------- request bodies
\* a client's registration as the register page sends it
ClientBody(email, phone_number) ==
    [full_name |-> "Ann", email |-> email, phone_number |-> phone_number,
     password |-> "pw1", user_type |-> "client", location |-> Undefined,
     bio |-> Undefined, years_experience |-> Undefined, skills |-> SkUndefined]

\* an artisan's registration
ArtisanBody(email, phone_number, years, skills) ==
    [full_name |-> "Ann", email |-> email, phone_number |-> phone_number,
     password |-> "pw1", user_type |-> "artisan", location |-> "Nairobi",
     bio |-> "x", years_experience |-> years, skills |-> skills]

ValidBodies ==
    {ClientBody("a@x", "0702"), ClientBody("b@x", "0701")}
    \cup {ArtisanBody("a@x", "0701", y, SkArray(<<"Plumbing">>)) : y \in YearsInputs}
    \cup {ArtisanBody("b@x", "0702", Undefined, sk) :
            sk \in {SkArray(<<"Plumbing", "Juggling">>), SkArray(<<"Juggling">>)}}

\* bodies the input validation refuses: one field of a valid body is spoilt
InvalidBodies ==
    LET c == ClientBody("a@x", "0701")
        a == ArtisanBody("b@x", "0702", "2", SkArray(<<"Plumbing">>))
    IN  {[c EXCEPT !.full_name = Undefined], [c EXCEPT !.email = Undefined],
         [c EXCEPT !.phone_number = ""], [c EXCEPT !.password = Undefined],
         [c EXCEPT !.user_type = Undefined], [c EXCEPT !.user_type = "admin"],
         [a EXCEPT !.location = Undefined], [a EXCEPT !.bio = ""],
         [a EXCEPT !.skills = SkUndefined], [a EXCEPT !.skills = SkString],
         [a EXCEPT !.skills = SkArray(<<>>)]}

RegisterBodies == ValidBodies \cup InvalidBodies

\* a request reaches the server: express.json() has parsed its body
Accept(r, request) ==
    /\ pc[r] \in {"idle", "done"}
    /\ pc' = [pc EXCEPT ![r] = request.kind]
    /\ req' = [req EXCEPT ![r] = request]
    /\ loc' = [loc EXCEPT ![r] = NoLoc]
    /\ res' = [res EXCEPT ![r] = NoRes]

\* a request of anyone but the browser
Arrive(r, kind, b) ==
    /\ Accept(r, [kind |-> kind, body |-> b])
    /\ UNCHANGED <<users, artisan_details, artisan_skills, users_id_seq, now, browser>>

\* variant: a taken email or phone overwrites the name of its account
Register_UpsertOnConflict(r, fault) ==
    /\ pc[r] = "register"
    /\ LET b == req[r].body
       IN  IF RegisterValidation(b) # ""
           THEN Respond(r, Json(400, RegisterValidation(b)), "") /\ UNCHANGED users
           ELSE IF fault
           THEN Respond(r, ServerError, "connection") /\ UNCHANGED users
           ELSE IF SelectUserExists(b.email, b.phone_number) # {}
           THEN /\ Respond(r, Json(400, "User with this email or phone number already exists"), "")
                /\ users' = {IF u \in SelectUserExists(b.email, b.phone_number)
                             THEN [u EXCEPT !.full_name = "overwritten"] ELSE u : u \in users}
           ELSE /\ Await(r, "insert_user")
                /\ UNCHANGED <<loc, users>>
    /\ UNCHANGED <<artisan_details, artisan_skills, users_id_seq, now, browser>>

\* POST /api/auth/register: "1. Basic Input Validation" and
\* "2. Check for existing user (by email or phone number)"
Register(r, fault) ==
    /\ pc[r] = "register"
    /\ LET b == req[r].body
       IN  IF RegisterValidation(b) # ""
           THEN Respond(r, Json(400, RegisterValidation(b)), "")
           ELSE IF fault
           THEN Respond(r, ServerError, "connection")
           ELSE IF SelectUserExists(b.email, b.phone_number) # {}
           THEN Respond(r, Json(400, "User with this email or phone number already exists"), "")
           ELSE /\ Await(r, "insert_user")
                /\ UNCHANGED loc
    /\ UNCHANGED <<users, artisan_details, artisan_skills, users_id_seq, now, browser>>

\* "3. Hash Password" and "4. Insert new user into the 'users' table"; a client
\* goes on to "6. Generate JWT"
RegisterInsertUser(r, salt, fault) ==
    /\ pc[r] = "insert_user"
    /\ users_id_seq < MaxId
    /\ LET b == req[r].body
           user_id == users_id_seq + 1
           row == [id |-> user_id, full_name |-> b.full_name, email |-> b.email,
                   phone_number |-> b.phone_number,
                   password_hash |-> bcrypt_hash(b.password, salt),
                   user_type |-> b.user_type, location |-> SqlParam(b.location)]
       IN  IF fault
           THEN /\ Respond(r, ServerError, "connection")
                /\ UNCHANGED <<users, users_id_seq>>
           ELSE IF UsersUniqueViolation(row)
           THEN /\ Respond(r, ServerError, "unique_violation")
                /\ users_id_seq' = user_id
                /\ UNCHANGED users
           ELSE /\ users' = users \cup {row}
                /\ users_id_seq' = user_id
                /\ IF b.user_type = "artisan"
                   THEN /\ Await(r, "insert_details")
                        /\ loc' = [loc EXCEPT ![r].user_id = user_id]
                   ELSE Respond(r, RegisterSuccess(b, user_id, now), "")
    /\ UNCHANGED <<artisan_details, artisan_skills, now, browser>>

\* "5. If user_type is 'artisan', create an entry in 'artisan_details'"
RegisterInsertDetails(r, fault) ==
    /\ pc[r] = "insert_details"
    /\ LET b == req[r].body
           years == YearsOrZero(b.years_experience)
       IN  IF fault
           THEN /\ Respond(r, ServerError, "connection")
                /\ UNCHANGED artisan_details
           ELSE IF ~IsPgInteger(years)
           THEN /\ Respond(r, ServerError, "invalid_text_representation")
                /\ UNCHANGED artisan_details
           ELSE /\ artisan_details' = artisan_details \cup
                       {[user_id |-> loc[r].user_id, bio |-> b.bio,
                         years_experience |-> PgInteger(years)]}
                /\ Await(r, "select_skills")
                /\ UNCHANGED loc
    /\ UNCHANGED <<users, artisan_skills, users_id_seq, now, browser>>

\* SELECT id FROM skills ...; with no row matched the handler goes on to sign
RegisterSelectSkills(r, fault) ==
    /\ pc[r] = "select_skills"
    /\ LET b == req[r].body
           ids == SelectSkillIds(b.skills.items)
       IN  IF fault
           THEN Respond(r, ServerError, "connection")
           ELSE IF ids = {}
           THEN Respond(r, RegisterSuccess(b, loc[r].user_id, now), "")
           ELSE /\ Await(r, "insert_skills")
                /\ loc' = [loc EXCEPT ![r].skillIds = ids]
    /\ UNCHANGED <<users, artisan_details, artisan_skills, users_id_seq, now, browser>>

\* INSERT INTO artisan_skills (artisan_id, skill_id) VALUES ..., then sign
RegisterInsertSkills(r, fault) ==
    /\ pc[r] = "insert_skills"
    /\ IF fault
       THEN /\ Respond(r, ServerError, "connection")
            /\ UNCHANGED artisan_skills
       ELSE /\ artisan_skills' = artisan_skills \cup
                   {[artisan_id |-> loc[r].user_id, skill_id |-> i] : i \in loc[r].skillIds}
            /\ Respond(r, RegisterSuccess(req[r].body, loc[r].user_id, now), "")
    /\ UNCHANGED <<users, artisan_details, users_id_seq, now, browser>>

\* ------------------------------------------------------ the login handler
LoginBodies ==
    {[email |-> e, password |-> p] : e \in Emails, p \in Passwords}
    \cup {[email |-> Undefined, password |-> "pw1"], [email |-> "a@x", password |-> ""]}

\* SELECT id, full_name, email, phone_number, password_hash, user_type
\* FROM users WHERE email = $1
SelectUserByEmail(email) == {u \in users : u.email = email}

\* variant: the response carries the row as selected
LoginSuccess_WholeRow(user, t) ==
    [NoRes EXCEPT !.status = 200, !.msg = "Logged in successfully!",
        !.token = <<jwt_sign([id |-> user.id, user_type |-> user.user_type,
                              email |-> user.email], jwtSecret, t)>>,
        !.user = <<user>>]

\* variant: the payload is signed with a fixed user_type
LoginSuccess_FixedRole(user, t) ==
    [NoRes EXCEPT !.status = 200, !.msg = "Logged in successfully!",
        !.token = <<jwt_sign([id |-> user.id, user_type |-> "client",
                              email |-> user.email], jwtSecret, t)>>,
        !.user = <<[id |-> user.id, full_name |-> user.full_name, email |-> user.email,
                    phone_number |-> user.phone_number, user_type |-> user.user_type]>>]

\* "4. Generate JWT" and the response of the callback (res.json: status 200)
LoginSuccess(user, t) ==
    [NoRes EXCEPT !.status = 200, !.msg = "Logged in successfully!",
        !.token = <<jwt_sign([id |-> user.id, user_type |-> user.user_type,
                              email |-> user.email], jwtSecret, t)>>,
        !.user = <<[id |-> user.id, full_name |-> user.full_name, email |-> user.email,
                    phone_number |-> user.phone_number, user_type |-> user.user_type]>>]

\* variant: an unknown email gets an answer of its own
LoginResponse_UserNotFound(b, rows, t) ==
    IF rows = {}
    THEN Json(404, "User not found")
    ELSE LET user == CHOOSE u \in rows : TRUE
         IN  IF ~bcrypt_compare(b.password, user.password_hash)
             THEN Json(400, "Invalid Credentials")
             ELSE LoginSuccess(user, t)

\* what the handler answers to body b when its query returns rows
LoginResponse(b, rows, t) ==
    IF rows = {}
    THEN Json(400, "Invalid Credentials")
    ELSE LET user == CHOOSE u \in rows : TRUE
         IN  IF ~bcrypt_compare(b.password, user.password_hash)
             THEN Json(400, "Invalid Credentials")
             ELSE LoginSuccess(user, t)

\* POST /api/auth/login
Login(r, fault) ==
    /\ pc[r] = "login"
    /\ LET b == req[r].body
       IN  IF Falsy(b.email) \/ Falsy(b.password)
           THEN Respond(r, Json(400, "Please enter all fields"), "")
           ELSE IF fault
           THEN Respond(r, ServerError, "connection")
           ELSE Respond(r, LoginResponse(b, SelectUserByEmail(b.email), now), "")
    /\ UNCHANGED <<users, artisan_details, artisan_skills, users_id_seq, now, browser>>

\* --------------------------------------------- requests to protected routes
\* the tokens the server has handed out in the responses still on display
HeldTokens == {res[q].token[1] : q \in {x \in Reqs : res[x].token # NoToken}}

\* what a holder of token t can make of it without the server's secret
Tampered(t) ==
    {[t EXCEPT !.sig.bits = 1],
     [t EXCEPT !.user.user_type = IF @ = "client" THEN "artisan" ELSE "client"],
     [t EXCEPT !.exp = @ + ExpiresIn],
     [t EXCEPT !.sig = HS256(OtherSecret, TokenContent(t))]}

NoHeaders == [xAuthToken |-> NoToken, authorization |-> NoToken]

\* api.interceptors.request.use: the headers the client writes when
\* localStorage.getItem('token') is item (JsNull: no such item)
RequestInterceptor(item) ==
    IF ~Truthy(item) THEN NoHeaders
    ELSE [NoHeaders EXCEPT !.authorization = <<[scheme |-> "Bearer", credentials |-> item]>>]

\* the headers of a request to a protected route
AuthHeaders ==
    {NoHeaders}
    \cup {[NoHeaders EXCEPT !.xAuthToken = <<t>>] :
            t \in HeldTokens \cup UNION {Tampered(h) : h \in HeldTokens}}
    \cup {RequestInterceptor(Jwt(t)) : t \in HeldTokens}

\* the middleware runs in front of a protected route
Authenticate(r) ==
    /\ pc[r] = "auth"
    /\ Respond(r, authMiddleware(req[r].body, now), AuthCaught(req[r].body, now))
    /\ UNCHANGED <<users, artisan_details, artisan_skills, users_id_seq, now, browser>>

\* the clock advances
Tick(d) ==
    /\ now + d <= MaxTime
    /\ now' = now + d
    /\ UNCHANGED <<users, artisan_details, artisan_skills, users_id_seq, pc, req, loc, res, browser>>

\* ------------------------------------------------------------ profile edit
\* parseInt(years_experience) || 0 on the texts the form can hold
ParseIntOrZero(v) == CASE v = "3" -> 3 [] OTHER -> 0

\* what the profile form holds when it is submitted
ProfileForms ==
    {[full_name |-> "Bea", email |-> "a@x", phone_number |-> "0701", location |-> "Mombasa",
      artisan_details |-> [bio |-> "y", years_experience |-> "3",
                           is_available |-> TRUE, skills |-> <<"Plumbing">>]],
     [full_name |-> "Ann", email |-> "b@x", phone_number |-> "0702", location |-> "Nairobi",
      artisan_details |-> [bio |-> "x", years_experience |-> "",
                           is_available |-> FALSE, skills |-> <<"Carpentry">>]]}

\* ProfilePage.handleSubmit: the body it builds from the form for the signed-in
\* user; neither id nor user_type is part of it
dataToUpdate(profileData, user) ==
    [full_name |-> profileData.full_name, email |-> profileData.email,
     phone_number |-> profileData.phone_number, location |-> profileData.location,
     artisan_details |->
        IF user.user_type = "artisan"
        THEN <<[bio |-> profileData.artisan_details.bio,
                years_experience |->
                    ParseIntOrZero(profileData.artisan_details.years_experience),
                is_available |-> profileData.artisan_details.is_available,
                skills |-> profileData.artisan_details.skills]>>
        ELSE <<>>]

\* PUT /api/auth/me reaches the server with headers h and body d
ArriveEdit(r, h, d) ==
    /\ Accept(r, [kind |-> "edit", body |-> h, data |-> d])
    /\ UNCHANGED <<users, artisan_details, artisan_skills, users_id_seq, now, browser>>

\* profile-edit behind the middleware: the account of the token's id gets the
\* name, email, phone and location of the body, its artisan profile the bio and
\* the experience; id and user_type are not among the updated columns
ProfileUpdate(r) ==
    /\ pc[r] = "edit"
    /\ LET a == authMiddleware(req[r].body, now)
           d == req[r].data
       IN  IF a.next = 0
           THEN /\ Respond(r, a, AuthCaught(req[r].body, now))
                /\ UNCHANGED <<users, artisan_details>>
           ELSE LET id == a.reqUser[1].id
                    old == {u \in users : u.id = id}
                    new == {[u EXCEPT !.full_name = d.full_name, !.email = d.email,
                                      !.phone_number = d.phone_number,
                                      !.location = SqlParam(d.location)] : u \in old}
                IN  IF old = {}
                    THEN /\ Respond(r, Json(404, "User not found"), "")
                         /\ UNCHANGED <<users, artisan_details>>
                    ELSE IF \E u \in users \ old : \E n \in new :
                              u.email = n.email \/ u.phone_number = n.phone_number
                    THEN /\ Respond(r, ServerError, "unique_violation")
                         /\ UNCHANGED <<users, artisan_details>>
                    ELSE /\ users' = (users \ old) \cup new
                         /\ artisan_details' =
                              IF d.artisan_details = <<>> THEN artisan_details
                              ELSE {IF x.user_id = id
                                    THEN [x EXCEPT !.bio = d.artisan_details[1].bio,
                                            !.years_experience =
                                                d.artisan_details[1].years_experience]
                                    ELSE x : x \in artisan_details}
                         /\ Respond(r, [NoRes EXCEPT !.status = 200,
                                          !.user = <<[id |-> id, full_name |-> d.full_name,
                                                      email |-> d.email,
                                                      phone_number |-> d.phone_number,
                                                      user_type |-> a.reqUser[1].user_type,
                                                      location |-> d.location]>>], "")
    /\ UNCHANGED <<artisan_skills, users_id_seq, now, browser>>

\* ------------------------------------------------------------ the browser
\* the two AuthProvider sources and the two PrivateRoute sources
Providers == {"AuthContext.jsx", "part_003"}
Routes == {"PrivateRoute.jsx", "part_001"}

\* the request slot the browser's calls use
Tab == 1

\* a page load: useState(null), useState(localStorage.getItem('token')),
\* useState(true); the effect is due after the first render and navigate has
\* not been called
Mount(provider, item, pathname) ==
    [provider |-> provider, localStorage |-> item, token |-> item, user |-> JsNull,
     loading |-> TRUE, pathname |-> pathname, call |-> "none", effect |-> TRUE,
     navigations |-> 0, route |-> <<>>, view |-> ""]

\* the count of navigate calls since the page load, after one more
Navigated(n) == IF n < MaxNavigations THEN n + 1 ELSE MaxNavigations

\* response.data of a register or login response
ResponseData(response) ==
    [message |-> response.msg, token |-> Jwt(response.token[1]), user |-> response.user[1]]

\* the property of response.data that login and register read the token from
TokenProperty(provider) == IF provider = "AuthContext.jsx" THEN "access_token" ELSE "token"

\* the server's variables that the browser's own steps leave alone
directory == <<users, artisan_details, artisan_skills, users_id_seq, now>>
server == <<users, artisan_details, artisan_skills, users_id_seq, now, pc, req, loc, res>>

\* the header a protected route takes the token from
TokenHeaders == {"xAuthToken", "authorization"}

\* GET /api/auth/me behind its authentication: the public columns of the
\* account of the token's id. The route reads the token either as the
\* middleware of the sources does or from the bearer credential; a credential
\* that is no token text fails verification
GetMe(r, reads) ==
    /\ pc[r] = "me"
    /\ LET h == req[r].body
           bearer == reads = "authorization" /\ h.authorization # NoToken
           malformed == bearer /\ "jwt" \notin DOMAIN h.authorization[1].credentials
           seen == IF reads = "xAuthToken" THEN h
                   ELSE IF ~bearer THEN NoHeaders
                   ELSE [NoHeaders EXCEPT !.xAuthToken = <<h.authorization[1].credentials.jwt>>]
           a == IF malformed THEN Json(401, "Token is not valid")
                ELSE authMiddleware(seen, now)
           rows == IF a.next = 0 THEN {} ELSE {u \in users : u.id = a.reqUser[1].id}
       IN  IF a.next = 0
           THEN Respond(r, a, IF malformed THEN "JsonWebTokenError" ELSE AuthCaught(seen, now))
           ELSE IF rows = {}
           THEN Respond(r, Json(404, "User not found"), "")
           ELSE LET u == CHOOSE x \in rows : TRUE
                IN  Respond(r, [NoRes EXCEPT !.status = 200,
                                  !.user = <<[id |-> u.id, full_name |-> u.full_name,
                                              email |-> u.email,
                                              phone_number |-> u.phone_number,
                                              user_type |-> u.user_type,
                                              location |-> u.location]>>], "")
    /\ UNCHANGED <<users, artisan_details, artisan_skills, users_id_seq, now, browser>>

\* useEffect(..., [token]): fetchUserProfile(token) of AuthContext.jsx,
\* loadUserData of part_003, up to the await of getMyProfile
UseEffect ==
    /\ browser.effect
    /\ browser.call = "none"
    /\ IF ~Truthy(browser.token)
       THEN /\ browser' = [browser EXCEPT !.user = JsNull, !.loading = FALSE,
                                          !.effect = FALSE]
            /\ UNCHANGED server
       ELSE /\ Accept(Tab, [kind |-> "me", body |-> RequestInterceptor(browser.localStorage)])
            /\ browser' = [browser EXCEPT
                     !.loading = IF browser.provider = "part_003" THEN TRUE ELSE @,
                     !.effect = FALSE, !.call = "me"]
            /\ UNCHANGED directory

\* getMyProfile has settled: setUser(profile), or the catch block. The effect
\* of part_003 also depends on navigate, which useNavigate may hand out anew
\* after the location changed (stable: it did not)
ProfileReturns(stable) ==
    /\ browser.call = "me"
    /\ pc[Tab] = "done"
    /\ LET to == IF res[Tab].status = 200
                 THEN IF browser.provider = "part_003" THEN "/dashboard"
                      ELSE browser.pathname
                 ELSE IF browser.provider = "part_003" \/ res[Tab].status \in {401, 404}
                      THEN "/login"
                      ELSE browser.pathname
           renavigated == /\ browser.provider = "part_003"
                          /\ to # browser.pathname
                          /\ ~stable
           \* part_003 tests window.location.pathname before it calls
           \* navigate, AuthContext.jsx tests the status only
           calls == IF browser.provider = "part_003" THEN to # browser.pathname
                    ELSE res[Tab].status \in {401, 404}
           count == IF calls THEN Navigated(browser.navigations)
                    ELSE browser.navigations
       IN  IF res[Tab].status = 200
           THEN browser' = [browser EXCEPT
                    !.user = res[Tab].user[1], !.pathname = to,
                    !.loading = FALSE, !.call = "none",
                    !.effect = renavigated, !.navigations = count]
           ELSE browser' = [browser EXCEPT
                    !.localStorage = JsNull, !.token = JsNull, !.user = JsNull,
                    !.pathname = to,
                    !.loading = FALSE, !.call = "none",
                    !.effect = (browser.token # JsNull) \/ renavigated,
                    !.navigations = count]
    /\ UNCHANGED server

\* login(credentials) up to the await of apiLoginUser
CallLogin(credentials) ==
    /\ browser.call = "none" /\ ~browser.effect /\ ~browser.loading
    /\ Accept(Tab, [kind |-> "login", body |-> credentials])
    /\ browser' = [browser EXCEPT
             !.loading = IF browser.provider = "AuthContext.jsx" THEN TRUE ELSE @,
             !.call = "login"]
    /\ UNCHANGED directory

\* register(userData) up to the await of apiRegisterUser
CallRegister(userData) ==
    /\ browser.call = "none" /\ ~browser.effect /\ ~browser.loading
    /\ Accept(Tab, [kind |-> "register", body |-> userData])
    /\ browser' = [browser EXCEPT
             !.loading = IF browser.provider = "AuthContext.jsx" THEN TRUE ELSE @,
             !.call = "register"]
    /\ UNCHANGED directory

\* the rest of login and of register: axios throws on a status outside 2xx and
\* the catch block rethrows; otherwise the token property of the response data
\* goes to localStorage and to the token state
CallReturns ==
    /\ browser.call \in {"login", "register"}
    /\ pc[Tab] = "done"
    /\ IF res[Tab].status \notin {200, 201}
       THEN browser' = [browser EXCEPT !.call = "none"]
       ELSE LET t == Prop(ResponseData(res[Tab]), TokenProperty(browser.provider))
                stores == \/ browser.provider = "AuthContext.jsx"
                          \/ browser.call = "login"
                          \/ Truthy(t)
            IN  browser' = [browser EXCEPT
                    !.localStorage = IF stores THEN JsString(t) ELSE @,
                    !.token = IF stores THEN t ELSE @,
                    !.effect = stores /\ t # browser.token,
                    !.pathname = IF browser.provider = "AuthContext.jsx"
                                 THEN "/dashboard" ELSE @,
                    !.navigations = IF browser.provider = "AuthContext.jsx"
                                    THEN Navigated(@) ELSE @,
                    !.call = "none"]
    /\ UNCHANGED server

\* variant: logout leaves the item in localStorage
Logout_KeepsItem ==
    /\ browser.call = "none" /\ ~browser.effect /\ ~browser.loading
    /\ browser' = [browser EXCEPT
             !.token = JsNull,
             !.user = IF browser.provider = "AuthContext.jsx" THEN JsNull ELSE @,
             !.pathname = IF browser.provider = "AuthContext.jsx" THEN "/login" ELSE @,
             !.navigations = IF browser.provider = "AuthContext.jsx"
                             THEN Navigated(@) ELSE @,
             !.effect = (browser.token # JsNull)]
    /\ UNCHANGED server

\* logout()
Logout ==
    /\ browser.call = "none" /\ ~browser.effect /\ ~browser.loading
    /\ browser' = [browser EXCEPT
             !.localStorage = JsNull, !.token = JsNull,
             !.user = IF browser.provider = "AuthContext.jsx" THEN JsNull ELSE @,
             !.pathname = IF browser.provider = "AuthContext.jsx" THEN "/login" ELSE @,
             !.navigations = IF browser.provider = "AuthContext.jsx"
                             THEN Navigated(@) ELSE @,
             !.effect = (browser.token # JsNull)]
    /\ UNCHANGED server

\* the page is loaded again
Reload ==
    /\ browser.call = "none"
    /\ browser # Mount(browser.provider, browser.localStorage, browser.pathname)
    /\ browser' = Mount(browser.provider, browser.localStorage, browser.pathname)
    /\ UNCHANGED server

\* variant: a held token is enough
isAuthenticated_TokenOnly(context) == Truthy(context.token)

\* isAuthenticated: !!token && !!user, the same in both providers
isAuthenticated(context) == Truthy(context.token) /\ Truthy(context.user)

\* variant: the allowedRoles test is missing
PrivateRoute_NoRoleTest(context, allowedRoles) ==
    IF context.loading THEN "Checking authentication..."
    ELSE IF ~isAuthenticated(context) THEN "Navigate /login"
    ELSE "children"

\* PrivateRoute.jsx: what the component returns; allowedRoles is <<>> when the
\* prop is absent and <<roles>> when it is given
PrivateRoute(context, allowedRoles) ==
    IF context.loading THEN "Checking authentication..."
    ELSE IF ~isAuthenticated(context) THEN "Navigate /login"
    ELSE IF /\ allowedRoles # <<>>
            /\ Truthy(context.user)
            /\ context.user.user_type \notin Range(allowedRoles[1])
    THEN "Access Denied"
    ELSE "children"

\* part_001: the same component, which sends a wrong role to the dashboard
PrivateRoute_part_001(context, allowedRoles) ==
    IF context.loading THEN "Checking authentication..."
    ELSE IF ~isAuthenticated(context) THEN "Navigate /login"
    ELSE IF /\ allowedRoles # <<>>
            /\ Truthy(context.user)
            /\ context.user.user_type \notin Range(allowedRoles[1])
    THEN "Navigate /dashboard"
    ELSE "children"

\* a route element of the given source is rendered under the provider
Render(route, allowedRoles) ==
    /\ browser' = [browser EXCEPT
             !.route = <<[source |-> route, allowedRoles |-> allowedRoles]>>,
             !.view = IF route = "PrivateRoute.jsx"
                      THEN PrivateRoute(browser, allowedRoles)
                      ELSE PrivateRoute_part_001(browser, allowedRoles)]
    /\ UNCHANGED server

Boot ==
    /\ users = {}
    /\ artisan_details = {}
    /\ artisan_skills = {}
    /\ users_id_seq = 0
    /\ now = 0
    /\ pc = [r \in Reqs |-> "idle"]
    /\ req = [r \in Reqs |-> NoReq]
    /\ loc = [r \in Reqs |-> NoLoc]
    /\ res = [r \in Reqs |-> NoRes]

Init ==
    /\ Boot
    /\ browser = Mount("AuthContext.jsx", JsNull, "/login")

Next ==
    \/ \E r \in Reqs, b \in RegisterBodies : Arrive(r, "register", b)
    \/ \E r \in Reqs, fault \in BOOLEAN : Register(r, fault)
    \/ \E r \in Reqs, salt \in Salts, fault \in BOOLEAN : RegisterInsertUser(r, salt, fault)
    \/ \E r \in Reqs, fault \in BOOLEAN : RegisterInsertDetails(r, fault)
    \/ \E r \in Reqs, fault \in BOOLEAN : RegisterSelectSkills(r, fault)
    \/ \E r \in Reqs, fault \in BOOLEAN : RegisterInsertSkills(r, fault)
    \/ \E r \in Reqs, b \in LoginBodies : Arrive(r, "login", b)
    \/ \E r \in Reqs, fault \in BOOLEAN : Login(r, fault)
    \/ \E r \in Reqs, h \in AuthHeaders : Arrive(r, "auth", h)
    \/ \E r \in Reqs : Authenticate(r)
    \/ \E d \in TickSteps : Tick(d)

Spec == Init /\ [][Next]_vars

\* ------------------------------------- registrations, logins and profile edits
\* two accounts, their logins and their profile edits, without database faults
EditBodies ==
    {ClientBody("a@x", "0701"), ArtisanBody("b@x", "0702", "2", SkArray(<<"Plumbing">>))}

EditLogins == {[email |-> e, password |-> "pw1"] : e \in Emails}

EditNext ==
    \/ \E r \in Reqs, b \in EditBodies : Arrive(r, "register", b)
    \/ \E r \in Reqs : Register(r, FALSE)
    \/ \E r \in Reqs, salt \in Salts : RegisterInsertUser(r, salt, FALSE)
    \/ \E r \in Reqs : RegisterInsertDetails(r, FALSE)
    \/ \E r \in Reqs : RegisterSelectSkills(r, FALSE)
    \/ \E r \in Reqs : RegisterInsertSkills(r, FALSE)
    \/ \E r \in Reqs, b \in EditLogins : Arrive(r, "login", b)
    \/ \E r \in Reqs : Login(r, FALSE)
    \/ \E r \in Reqs, t \in HeldTokens :
          Arrive(r, "auth", [NoHeaders EXCEPT !.xAuthToken = <<t>>])
    \/ \E r \in Reqs : Authenticate(r)
    \/ \E r \in Reqs, t \in HeldTokens, f \in ProfileForms :
          ArriveEdit(r, [NoHeaders EXCEPT !.xAuthToken = <<t>>], dataToUpdate(f, t.user))
    \/ \E r \in Reqs : ProfileUpdate(r)
    \/ \E d \in TickSteps : Tick(d)

SpecEdit == Init /\ [][EditNext]_vars

\* --------------------------------------------- one browser and the server
BrowserInit ==
    /\ Boot
    /\ browser \in {Mount(p, JsNull, "/login") : p \in Providers}

BrowserLogins == {[email |-> "a@x", password |-> p] : p \in Passwords}
                 \cup {[email |-> "b@x", password |-> "pw1"]}

BrowserNext ==
    \/ UseEffect
    \/ \E stable \in BOOLEAN : ProfileReturns(stable)
    \/ \E b \in EditBodies : CallRegister(b)
    \/ \E b \in BrowserLogins : CallLogin(b)
    \/ CallReturns
    \/ Logout
    \/ Reload
    \/ \E r \in Reqs : Register(r, FALSE)
    \/ \E r \in Reqs, salt \in Salts : RegisterInsertUser(r, salt, FALSE)
    \/ \E r \in Reqs : RegisterInsertDetails(r, FALSE)
    \/ \E r \in Reqs : RegisterSelectSkills(r, FALSE)
    \/ \E r \in Reqs : RegisterInsertSkills(r, FALSE)
    \/ \E r \in Reqs : Login(r, FALSE)
    \/ \E r \in Reqs, reads \in TokenHeaders : GetMe(r, reads)

SpecBrowser == BrowserInit /\ [][BrowserNext]_vars

\* what runs without the user: the server answers a request it accepted, a
\* settled promise resumes the provider's function, a due effect runs. The
\* user's own steps (a call of login, register or logout, a reload) may never
\* come
ServerAnswers ==
    \/ \E r \in Reqs : Register(r, FALSE)
    \/ \E r \in Reqs, salt \in Salts : RegisterInsertUser(r, salt, FALSE)
    \/ \E r \in Reqs : RegisterInsertDetails(r, FALSE)
    \/ \E r \in Reqs : RegisterSelectSkills(r, FALSE)
    \/ \E r \in Reqs : RegisterInsertSkills(r, FALSE)
    \/ \E r \in Reqs : Login(r, FALSE)
    \/ \E r \in Reqs, reads \in TokenHeaders : GetMe(r, reads)

SpecBrowserLive ==
    /\ BrowserInit
    /\ [][BrowserNext]_vars
    /\ WF_vars(ServerAnswers)
    /\ WF_vars(CallReturns)
    /\ WF_vars(\E stable \in BOOLEAN : ProfileReturns(stable))
    /\ WF_vars(UseEffect)

\* ------------------------------------- a page load with a stale token
\* a token issued at clock 0 to an account that the directory does not hold
StaleToken == jwt_sign([id |-> 1, user_type |-> "client", email |-> "a@x"], jwtSecret, 0)

\* what localStorage.getItem('token') can return for a token that the server
\* will refuse: the token past its hour or without its account, a token with a
\* signature that is not the server's, the text a failed read of the response
\* left behind
StaleItems ==
    {Jwt(t) : t \in {StaleToken} \cup Tampered(StaleToken)} \cup {Text("undefined")}

StalePaths == {"/login", "/dashboard", "/profile"}

StaleInit ==
    /\ users = {}
    /\ artisan_details = {}
    /\ artisan_skills = {}
    /\ users_id_seq = 0
    /\ now \in {0, ExpiresIn, MaxTime}
    /\ pc = [r \in Reqs |-> "idle"]
    /\ req = [r \in Reqs |-> NoReq]
    /\ loc = [r \in Reqs |-> NoLoc]
    /\ res = [r \in Reqs |-> NoRes]
    /\ browser \in {Mount(p, i, path) : p \in Providers, i \in StaleItems, path \in StalePaths}

StaleNext ==
    \/ UseEffect
    \/ \E r \in Reqs, reads \in TokenHeaders : GetMe(r, reads)
    \/ \E stable \in BOOLEAN : ProfileReturns(stable)

SpecStale == StaleInit /\ [][StaleNext]_vars

\* ------------------------------------------------- PrivateRoute by itself
\* the profile a provider holds for a signed-in account
Profile(id, email, user_type) ==
    [id |-> id, full_name |-> "Ann", email |-> email, phone_number |-> "0701",
     user_type |-> user_type, location |-> "Nairobi"]

RouteTokens ==
    {JsNull, Jwt(jwt_sign([id |-> 1, user_type |-> "client", email |-> "a@x"], jwtSecret, 0))}

RouteUsers == {JsNull, Profile(1, "a@x", "client"), Profile(2, "b@x", "artisan")}

RouteRoles ==
    {<<>>, <<<<>>>>, <<<<"artisan">>>>, <<<<"client">>>>, <<<<"client", "artisan">>>>,
     <<<<"admin">>>>}

\* every value of the context a provider can hand to the component
RouteInit ==
    /\ Boot
    /\ browser \in {[Mount("part_003", t, "/profile") EXCEPT
                        !.user = u, !.loading = l, !.effect = FALSE] :
                      t \in RouteTokens, u \in RouteUsers, l \in BOOLEAN}

RouteNext == \E route \in Routes, roles \in RouteRoles : Render(route, roles)

SpecRoute == RouteInit /\ [][RouteNext]_vars

\* ================================================================= claims
Conflict == Json(400, "User with this email or phone number already exists")

\* request r leaves the statement at label in this step
Leaves(r, label) == pc[r] = label /\ pc'[r] # label

\* the token of a pending middleware request, and whether the server signed it
Presented(r) == req[r].body.xAuthToken[1]
Presents(r) == pc[r] = "auth" /\ req[r].body.xAuthToken # NoToken
ServerSigned(t) == t.sig = HS256(jwtSecret, TokenContent(t))

\* C1: in every reachable state of the directory, whatever Register requests
\* ran and however they interleaved, no two accounts have the same email and
\* no two accounts have the same phone_number.
C1_UniqueEmailAndPhone ==
    \A u \in users : \A v \in users :
        u # v => (u.email # v.email /\ u.phone_number # v.phone_number)

\* two registrations raced for one email or phone and the directory kept one
C1_Witness ==
    /\ Cardinality(users) = 1
    /\ \E r \in Reqs : loc[r].err = "unique_violation"

\* C2: when two Register requests with the same email or phone have both
\* passed the existence check, the insert of the later one fails: it adds no
\* account, it answers with an error and no token; and never do two responses
\* report a successful registration of the same email or of the same phone.
C2_AtMostOneRacerSucceeds ==
    [][/\ \A r \in Reqs :
            (Leaves(r, "insert_user")
             /\ (\E u \in users : \/ u.email = req[r].body.email
                                  \/ u.phone_number = req[r].body.phone_number))
            => /\ users' = users
               /\ pc'[r] = "done"
               /\ res'[r].status >= 400
               /\ res'[r].token = NoToken
       /\ \A r \in Reqs : \A q \in Reqs :
            (r # q /\ res'[r].status = 201 /\ res'[q].status = 201)
            => /\ res'[r].user[1].email # res'[q].user[1].email
               /\ res'[r].user[1].phone_number # res'[q].user[1].phone_number
      ]_vars

\* one racer holds its 201 and the other was refused by the insert
C2_Witness ==
    \E r \in Reqs : \E q \in Reqs :
        /\ res[r].status = 201
        /\ loc[q].err = "unique_violation"
        /\ res[q].status = 500
        /\ Cardinality(users) = 1

\* C3: artisan registration is atomic: when a Register request fails after its
\* account row was inserted (profile insert, skill lookup or skill association
\* insert), no account row, profile row or skill association of that request
\* remains in the directory.
C3_ArtisanRegistrationAtomic ==
    [][\A r \in Reqs :
          (pc[r] \in {"insert_details", "select_skills", "insert_skills"}
           /\ pc'[r] = "done" /\ res'[r].status # 201)
          => /\ (\A u \in users' : u.id # loc[r].user_id)
             /\ (\A d \in artisan_details' : d.user_id # loc[r].user_id)
             /\ (\A k \in artisan_skills' : k.artisan_id # loc[r].user_id)
      ]_vars

\* C4: a Login with a registered email and a wrong password and a Login with an
\* unregistered email get the identical response, status and body.
C4_LoginFailuresIdentical ==
    [][\A r \in Reqs : \A b \in LoginBodies :
          (Leaves(r, "login") /\ loc'[r].err = ""
           /\ ~Falsy(req[r].body.email) /\ ~Falsy(req[r].body.password)
           /\ (\E u \in users : /\ u.email = req[r].body.email
                                /\ ~bcrypt_compare(req[r].body.password, u.password_hash))
           /\ ~Falsy(b.email) /\ ~Falsy(b.password)
           /\ (\A v \in users : v.email # b.email))
          => /\ res'[r] = LoginResponse(b, SelectUserByEmail(b.email), now)
             /\ res'[r].status = 400
      ]_vars

\* a wrong password was refused while a login for an unregistered email waits
C4_Witness ==
    \E r \in Reqs : \E q \in Reqs :
        /\ res[r] = Json(400, "Invalid Credentials")
        /\ pc[q] = "login"
        /\ ~Falsy(req[q].body.email)
        /\ (\A u \in users : u.email # req[q].body.email)
        /\ users # {}

\* C5: every Register request that passes input validation and whose email or
\* phone_number is that of an account in the directory when its existence check
\* is answered fails with Conflict (400, 'User with this email or phone number
\* already exists'), whatever its other fields are.
C5_DuplicateIsConflict ==
    [][\A r \in Reqs :
          (Leaves(r, "register") /\ loc'[r].err = ""
           /\ RegisterValidation(req[r].body) = ""
           /\ (\E u \in users : \/ u.email = req[r].body.email
                                \/ u.phone_number = req[r].body.phone_number))
          => /\ res'[r] = Conflict
             /\ pc'[r] = "done"
             /\ UNCHANGED <<users, artisan_details, artisan_skills>>
      ]_vars

\* a registration was refused as a duplicate of the one account there is
C5_Witness ==
    /\ Cardinality(users) = 1
    /\ \E r \in Reqs : res[r] = Conflict

\* C6: a Register request refused because its email or phone_number is taken is
\* reported as a Conflict naming the duplicate, also when only the uniqueness
\* constraint detects it at insert time; it is never a generic InternalError.
C6_ConstraintViolationIsConflict ==
    \A r \in Reqs :
        loc[r].err = "unique_violation" => (res[r] = Conflict /\ res[r] # ServerError)

\* C7: for a token the server issued, presented before its expiry, the
\* middleware attaches exactly the claims {id, user_type, email} embedded at
\* issuance, which are those of an account of the directory, sends no response
\* of its own and calls next() exactly once.
C7_ClaimsAttachedUnmodified ==
    [][\A r \in Reqs :
          (Presents(r) /\ Leaves(r, "auth")
           /\ ServerSigned(Presented(r)) /\ now < Presented(r).exp)
          => /\ res'[r].reqUser = <<Presented(r).user>>
             /\ res'[r].next = 1
             /\ res'[r].status = 0
             /\ \E u \in users : /\ u.id = Presented(r).user.id
                                 /\ u.user_type = Presented(r).user.user_type
                                 /\ u.email = Presented(r).user.email
      ]_vars

\* the middleware let a request pass with the claims of an account
C7_Witness ==
    \E r \in Reqs : \E u \in users :
        /\ res[r].next = 1
        /\ res[r].reqUser = <<[id |-> u.id, user_type |-> u.user_type, email |-> u.email]>>

\* C8: a token issued at time T expires at T + 1 hour: the middleware accepts
\* it at every time before and rejects it with 401 at every time after; the
\* clock never runs back, so an expired token stays expired.
C8_OneHourLifetime ==
    [][/\ now' >= now
       /\ \A t \in HeldTokens' : t.exp = t.iat + 3600 /\ t.iat <= now'
       /\ \A r \in Reqs :
            (Presents(r) /\ Leaves(r, "auth") /\ ServerSigned(Presented(r)))
            => /\ now < Presented(r).iat + 3600 => res'[r].next = 1
               /\ now > Presented(r).iat + 3600
                    => (res'[r] = Json(401, "Token is not valid") /\ res'[r].next = 0)
      ]_vars

\* an issued token was presented after its hour and was refused
C8_Witness ==
    \E r \in Reqs :
        /\ loc[r].err = "TokenExpiredError"
        /\ res[r] = Json(401, "Token is not valid")

\* C9: a token whose signature is not the server's over exactly its payload
\* (signature altered, payload altered, other secret) is rejected: no claims
\* are attached and next() is not called.
C9_BadSignatureRejected ==
    [][\A r \in Reqs :
          (Presents(r) /\ Leaves(r, "auth") /\ ~ServerSigned(Presented(r)))
          => /\ res'[r].reqUser = NoUser
             /\ res'[r].next = 0
             /\ res'[r].status = 401
      ]_vars

\* a tampered token was presented while still unexpired, and was refused
C9_Witness ==
    \E r \in Reqs :
        /\ loc[r].err = "JsonWebTokenError"
        /\ res[r].status = 401
        /\ res[r].next = 0

\* C10: a request to a protected route without a token is rejected with 401
\* 'No token, authorization denied'; next() is not called, req.user stays unset.
C10_NoTokenRejected ==
    [][\A r \in Reqs :
          (Leaves(r, "auth") /\ req[r].body.xAuthToken = NoToken)
          => res'[r] = Json(401, "No token, authorization denied")
      ]_vars

\* a request without the header was refused
C10_Witness ==
    \E r \in Reqs : res[r] = Json(401, "No token, authorization denied")

\* the six public columns of an account
PublicFields == {"id", "full_name", "email", "phone_number", "user_type", "location"}

\* the skill rows of account id in a state of artisan_skills
SkillIdsOf(rows, id) == {k.skill_id : k \in {x \in rows : x.artisan_id = id}}

\* C11: a valid, unexpired token presented the way the client attaches it (a
\* bearer credential in the Authorization header, no other header) is accepted
\* by the middleware of a protected route: next() is called.
C11_BearerTokenAccepted ==
    [][\A r \in Reqs :
          (/\ Leaves(r, "auth")
           /\ req[r].body.authorization # NoToken
           /\ jwt_verify(req[r].body.authorization[1].credentials.jwt, jwtSecret, now) = "")
          => res'[r].next = 1
      ]_vars

\* C14: the password an account was registered with logs in under its email,
\* and every other password is answered 'Invalid Credentials'; account rows
\* are never changed or removed, so this holds after any further requests.
C14_LoginMatchesRegistration ==
    [][/\ users \subseteq users'
       /\ \A r \in Reqs :
            (Leaves(r, "insert_user") /\ users' # users)
            => (\E s \in Salts :
                  [email |-> req[r].body.email,
                   password_hash |-> bcrypt_hash(req[r].body.password, s)]
                  \in {[email |-> u.email, password_hash |-> u.password_hash] :
                          u \in users' \ users})
       /\ \A r \in Reqs :
            (/\ Leaves(r, "login")
             /\ loc'[r].err = ""
             /\ ~Falsy(req[r].body.email) /\ ~Falsy(req[r].body.password))
            => \A u \in users :
                 u.email = req[r].body.email
                 => IF \E s \in Salts :
                         u.password_hash = bcrypt_hash(req[r].body.password, s)
                    THEN /\ res'[r].status = 200
                         /\ res'[r].token # NoToken
                         /\ res'[r].user[1].id = u.id
                    ELSE res'[r] = Json(400, "Invalid Credentials")
      ]_vars

\* with two accounts registered, one login succeeded and one was refused
C14_Witness ==
    /\ Cardinality(users) = 2
    /\ \E r \in Reqs : \E q \in Reqs :
          /\ res[r].status = 200
          /\ res[r].token # NoToken
          /\ res[q] = Json(400, "Invalid Credentials")

\* C15: no response carries a password or a password hash: the account in a
\* response has public columns only, none of its values nor the message is a
\* submitted password, and the token payload has id, user_type and email only.
C15_ResponsesCarryNoPassword ==
    \A r \in Reqs :
        /\ res[r].msg \notin Passwords
        /\ DOMAIN res[r] = DOMAIN NoRes
        /\ res[r].user # NoUser
           => /\ DOMAIN res[r].user[1] \subseteq PublicFields
              /\ \A f \in DOMAIN res[r].user[1] \ {"id"} :
                    res[r].user[1][f] \notin Passwords
        /\ res[r].token # NoToken
           => /\ DOMAIN res[r].token[1].user = {"id", "user_type", "email"}
              /\ res[r].token[1].user.email \notin Passwords
              /\ res[r].token[1].user.user_type \notin Passwords

\* a registration and a login have both answered with an account
C15_Witness ==
    \E r \in Reqs : \E q \in Reqs :
        /\ res[r].status = 201 /\ res[r].user # NoUser
        /\ res[q].status = 200 /\ res[q].user # NoUser

\* C16: the middleware answers an expired token and a token with an invalid
\* signature alike: both get 401 'Token is not valid' and nothing else.
C16_ExpiredAndInvalidAlike ==
    \A r \in Reqs : \A q \in Reqs :
        (loc[r].err = "TokenExpiredError" /\ loc[q].err = "JsonWebTokenError")
        => /\ res[r] = res[q]
           /\ res[r] = Json(401, "Token is not valid")

\* one answer to an expired token and one to a forged token are on display
C16_Witness ==
    \E r \in Reqs : \E q \in Reqs :
        /\ loc[r].err = "TokenExpiredError"
        /\ loc[q].err = "JsonWebTokenError"
        /\ res[r].status = 401

\* C17: a registration with full_name, email, phone_number, password or
\* user_type missing or empty, or with a user_type other than client and
\* artisan, is answered 400 without a token before any query is sent: no
\* database error can occur and the directory is unchanged.
C17_RequiredFieldsValidated ==
    [][\A r \in Reqs :
          (/\ Leaves(r, "register")
           /\ \/ \E f \in {"full_name", "email", "phone_number", "password", "user_type"} :
                    Falsy(req[r].body[f])
              \/ req[r].body.user_type \notin {"client", "artisan"})
          => /\ pc'[r] = "done"
             /\ res'[r].status = 400
             /\ res'[r].msg \in {"Please enter all required fields",
                                 "Invalid user type specified"}
             /\ res'[r].token = NoToken
             /\ loc'[r].err = ""
             /\ UNCHANGED <<users, artisan_details, artisan_skills, users_id_seq>>
      ]_vars

\* both validation messages have been sent
C17_Witness ==
    \E r \in Reqs : \E q \in Reqs :
        /\ res[r] = Json(400, "Please enter all required fields")
        /\ res[q] = Json(400, "Invalid user type specified")

ArtisanMessage == "Artisan registration requires location, bio, and at least one skill."

\* C18: an artisan registration whose location or bio is missing or empty, or
\* whose skills is missing, not an array or empty, is answered 400 and touches
\* nothing; so every artisan row of users has a non-null, non-empty location.
C18_ArtisanFieldsValidated ==
    [][/\ \A r \in Reqs :
            (/\ Leaves(r, "register")
             /\ req[r].body.user_type = "artisan"
             /\ \A f \in {"full_name", "email", "phone_number", "password"} :
                    ~Falsy(req[r].body[f])
             /\ \/ Falsy(req[r].body.location)
                \/ Falsy(req[r].body.bio)
                \/ req[r].body.skills.kind # "array"
                \/ req[r].body.skills.items = <<>>)
            => /\ res'[r] = Json(400, ArtisanMessage)
               /\ pc'[r] = "done"
               /\ UNCHANGED <<users, artisan_details, artisan_skills, users_id_seq>>
       /\ \A u \in users' :
            u.user_type = "artisan" => u.location \notin {Null, Undefined, ""}
      ]_vars

\* an artisan was refused for its artisan fields while an artisan row exists
C18_Witness ==
    /\ \E r \in Reqs : res[r] = Json(400, ArtisanMessage)
    /\ \E u \in users : u.user_type = "artisan"

\* C19: an artisan registration that reaches the skill lookup and meets no
\* database error succeeds with 201 and a token whatever names it asked for;
\* the artisan is linked to exactly the asked names found in the skills table.
C19_UnmatchedSkillsDropped ==
    [][\A r \in Reqs :
          (/\ pc[r] \in {"select_skills", "insert_skills"}
           /\ pc'[r] = "done"
           /\ loc'[r].err = "")
          => /\ res'[r].status = 201
             /\ res'[r].token # NoToken
             /\ res'[r].user[1].id = loc[r].user_id
             /\ SkillIdsOf(artisan_skills', loc[r].user_id)
                  = {s.id : s \in {x \in SkillsTable :
                                      x.name \in Range(req[r].body.skills.items)}}
      ]_vars

\* the artisan who asked for Plumbing and Juggling, or for Juggling alone, was
\* registered, and no name outside the table was linked
C19_Witness ==
    \E r \in Reqs :
        /\ res[r].status = 201
        /\ res[r].user[1].user_type = "artisan"
        /\ res[r].user[1].email = "b@x"
        /\ SkillIdsOf(artisan_skills, res[r].user[1].id) \subseteq {1}

\* C13: an account keeps its id and its user_type for ever, under every
\* registration, login, profile edit and middleware run; a new row gets the
\* user_type of its request; and the claims of every token handed out, and of
\* every req.user the middleware attaches, are the id and the user_type of one
\* account of the directory.
C13_IdAndRoleImmutable ==
    [][/\ \A u \in users : \E v \in users' : v.id = u.id /\ v.user_type = u.user_type
       /\ \A u \in users' : \A v \in users' : u.id = v.id => u = v
       /\ \A r \in Reqs :
            Leaves(r, "insert_user")
            => \A u \in users' \ users : u.user_type = req[r].body.user_type
       /\ \A r \in Reqs :
            res'[r].token # NoToken
            => \E u \in users' : /\ u.id = res'[r].token[1].user.id
                                 /\ u.user_type = res'[r].token[1].user.user_type
       /\ \A r \in Reqs :
            res'[r].reqUser # NoUser
            => \E u \in users' : /\ u.id = res'[r].reqUser[1].id
                                 /\ u.user_type = res'[r].reqUser[1].user_type
      ]_vars

\* an artisan changed name, email and phone, and a token issued before the
\* edit still passed the middleware with the artisan's id and user_type
C13_Witness ==
    \E u \in users : \E r \in Reqs :
        /\ u.user_type = "artisan"
        /\ u.full_name = "Bea"
        /\ u.email = "a@x"
        /\ res[r].next = 1
        /\ res[r].reqUser[1].id = u.id
        /\ res[r].reqUser[1].email = "b@x"

\* C20: when login or register of the AuthProvider has received a successful
\* response, the 'token' item of localStorage and the token state are the
\* token of that response, and the request interceptor attaches that token.
C20_StoredTokenIsIssuedToken ==
    [][(/\ browser.call \in {"login", "register"}
        /\ browser'.call = "none"
        /\ res[Tab].status \in {200, 201})
       => /\ browser'.localStorage = Jwt(res[Tab].token[1])
          /\ browser'.token = Jwt(res[Tab].token[1])
          /\ RequestInterceptor(browser'.localStorage).authorization
               = <<[scheme |-> "Bearer", credentials |-> Jwt(res[Tab].token[1])]>>
      ]_vars

\* the views of PrivateRoute that leave the protected content out for a role
Denied == {"Access Denied", "Navigate /dashboard"}

\* C12: a rendered route with allowedRoles shows its children only to an
\* authenticated user whose user_type is among them, denies every other
\* authenticated user, and shows them to every authenticated user whose
\* user_type is among them once loading is over; a client never gets the
\* children of an artisan-only route.
C12_RoleOutsideAllowedDenied ==
    browser.route # <<>>
    => LET roles == browser.route[1].allowedRoles
           member == /\ Truthy(browser.user)
                     /\ roles # <<>>
                     /\ browser.user.user_type \in Range(roles[1])
       IN  /\ browser.view = "children" => isAuthenticated(browser)
           /\ (browser.view = "children" /\ roles # <<>>) => member
           /\ (~browser.loading /\ isAuthenticated(browser) /\ roles # <<>>)
              => IF member THEN browser.view = "children" ELSE browser.view \in Denied
           /\ (/\ Truthy(browser.user)
               /\ browser.user.user_type = "client"
               /\ roles = <<<<"artisan">>>>)
              => browser.view # "children"

\* a signed-in client was denied an artisan-only route
C12_Witness ==
    /\ browser.route # <<>>
    /\ browser.route[1].allowedRoles = <<<<"artisan">>>>
    /\ isAuthenticated(browser)
    /\ browser.user.user_type = "client"
    /\ browser.view \in Denied

\* o[f] of a JSON object, undefined when the key is absent
Field(o, f) == IF f \in DOMAIN o THEN o[f] ELSE Undefined

\* C22: the account in a successful login response has the fields and values
\* of the account in the successful register response of the same account:
\* id, full_name, email, phone_number, user_type and location.
C22_LoginProjectionEqualsRegister ==
    \A r \in Reqs : \A q \in Reqs :
        (/\ res[r].status = 201
         /\ res[q].status = 200 /\ res[q].user # NoUser
         /\ res[q].user[1].id = res[r].user[1].id)
        => \A f \in PublicFields \ {"id"} :
              Field(res[q].user[1], f) = Field(res[r].user[1], f)

\* C23: in every state of the directory every artisan account has exactly one
\* artisan_details row, and every artisan_details row and every artisan_skills
\* row belongs to an artisan account.
C23_ArtisanHasExactlyOneProfile ==
    /\ \A u \in users :
          u.user_type = "artisan"
          => Cardinality({d \in artisan_details : d.user_id = u.id}) = 1
    /\ \A d \in artisan_details :
          \E u \in users : u.id = d.user_id /\ u.user_type = "artisan"
    /\ \A k \in artisan_skills :
          \E u \in users : u.id = k.artisan_id /\ u.user_type = "artisan"

\* the err.message texts of the database errors
ErrorDetails == {"connection", "unique_violation", "invalid_text_representation"}

\* C24: when a query of the register or login handler raises, the response is
\* 500 with the message 'Server error' and nothing else: no detail of the
\* error, no token, no account.
C24_InternalErrorIsGeneric ==
    [][\A r \in Reqs :
          (/\ pc[r] \in {"register", "insert_user", "insert_details", "select_skills",
                         "insert_skills", "login"}
           /\ loc'[r].err \in ErrorDetails)
          => /\ pc'[r] = "done"
             /\ res'[r] = Json(500, "Server error")
             /\ res'[r].msg \notin ErrorDetails
             /\ res'[r].token = NoToken
             /\ res'[r].user = NoUser
      ]_vars

\* a registration and a login were each answered after a query had raised
C24_Witness ==
    \E r \in Reqs : \E q \in Reqs :
        /\ loc[r].err = "invalid_text_representation"
        /\ loc[q].err = "connection"
        /\ res[r] = Json(500, "Server error")
        /\ res[q] = Json(500, "Server error")

\* C25: every artisan_details row has years_experience >= 0, whatever value
\* the registration carried.
C25_YearsExperienceNonNegative ==
    \A d \in artisan_details : d.years_experience >= 0

\* C26: the middleware accepts a presented token exactly when the server
\* signed it and its hour is not over, whatever registrations, logins and
\* profile edits happened since it was issued; a second process holding the
\* same token at the same time gives the same answer.
C26_VerdictFromTokenSecretAndTime ==
    [][\A r \in Reqs :
          (Presents(r) /\ Leaves(r, "auth"))
          => /\ (res'[r].next = 1)
                  <=> (ServerSigned(Presented(r)) /\ now < Presented(r).exp)
             /\ \A q \in Reqs :
                  (Presents(q) /\ Presented(q) = Presented(r))
                  => authMiddleware(req[q].body, now) = res'[r]
      ]_vars

\* a token was accepted although its account has another email by now and a
\* later login has issued another token for the account
C26_Witness ==
    \E r \in Reqs : \E q \in Reqs : \E u \in users :
        /\ res[r].next = 1
        /\ u.id = res[r].reqUser[1].id
        /\ u.email # res[r].reqUser[1].email
        /\ res[q].status = 200 /\ res[q].token # NoToken
        /\ res[q].token[1].user.id = u.id
        /\ res[q].token[1].user.email = u.email

\* C29: a registration answered 400 (validation or taken email or phone)
\* leaves users, artisan_details and artisan_skills as they were, and no
\* login step changes the directory.
C29_FailedRequestsWriteNothing ==
    [][/\ \A r \in Reqs :
            (Leaves(r, "register") /\ res'[r].status = 400)
            => UNCHANGED <<users, artisan_details, artisan_skills>>
       /\ \A r \in Reqs :
            Leaves(r, "login")
            => UNCHANGED <<users, artisan_details, artisan_skills, users_id_seq>>
      ]_vars

\* with an account in the directory, a registration was refused as taken and
\* a login was refused
C29_Witness ==
    /\ users # {}
    /\ \E r \in Reqs : \E q \in Reqs :
          /\ res[r] = Conflict
          /\ res[q] = Json(400, "Invalid Credentials")

\* a step of logout(): the provider is idle before and after it and its state
\* changes without a page load
LogoutStep ==
    /\ browser.call = "none" /\ browser'.call = "none"
    /\ ~browser.effect /\ ~browser.loading /\ ~browser'.loading
    /\ browser' # browser

\* the profile fetch with the held token was rejected in this step
FetchRejected ==
    browser.call = "me" /\ browser'.call = "none" /\ res[Tab].status # 200

\* a login or register call received a successful response in this step
CallSucceeded ==
    /\ browser.call \in {"login", "register"} /\ browser'.call = "none"
    /\ res[Tab].status \in {200, 201}

\* C21: logout and a rejected profile fetch both leave localStorage without a
\* 'token' item and the token state null, so isAuthenticated is false; the
\* user is null as soon as the token effect has run; and only a successful
\* login or register call puts a token item or a token state back.
C21_NoTokenAfterLogoutOrRejection ==
    [][/\ (LogoutStep \/ FetchRejected)
          => /\ browser'.localStorage = JsNull
             /\ browser'.token = JsNull
             /\ ~isAuthenticated(browser')
       /\ FetchRejected => browser'.user = JsNull
       /\ (browser'.token = JsNull /\ ~browser'.effect /\ browser'.call = "none")
          => (browser'.user = JsNull /\ browser'.localStorage = JsNull)
       /\ (browser.localStorage = JsNull /\ browser'.localStorage # JsNull)
          => CallSucceeded
       /\ (browser.token = JsNull /\ browser'.token # JsNull) => CallSucceeded
      ]_vars

\* the part_003 provider was signed in on the dashboard, logged out, and its
\* effect has cleared the user
C21_Witness ==
    /\ browser.provider = "part_003"
    /\ browser.pathname = "/dashboard"
    /\ browser.token = JsNull /\ browser.localStorage = JsNull
    /\ browser.user = JsNull
    /\ ~browser.effect /\ ~browser.loading /\ browser.call = "none"

\* C27: PrivateRoute renders its children only when loading is false, a token
\* is held, the user profile is loaded and the role test passes; while loading
\* it renders the waiting text, neither children nor a redirect; when loading
\* is false and the token or the user is missing it redirects to /login.
C27_ChildrenOnlyWhenLoadedAndAuthenticated ==
    browser.route # <<>>
    => LET roles == browser.route[1].allowedRoles
           held == Truthy(browser.token) /\ Truthy(browser.user)
       IN  /\ browser.view = "children"
              => /\ ~browser.loading
                 /\ held
                 /\ (roles = <<>> \/ browser.user.user_type \in Range(roles[1]))
           /\ browser.loading => browser.view = "Checking authentication..."
           /\ (~browser.loading /\ ~held) => browser.view = "Navigate /login"

\* a token is held but the profile is not loaded: the route went to /login
C27_Witness ==
    /\ browser.route # <<>>
    /\ ~browser.loading
    /\ Truthy(browser.token)
    /\ browser.user = JsNull
    /\ browser.view = "Navigate /login"

\* C28: every login or register attempt made through the AuthProvider
\* eventually leaves the loading state, whether it succeeds or fails: loading
\* becomes false again and the provider renders its children.
C28_AttemptLeavesLoading ==
    (browser.call \in {"login", "register"}) ~> (~browser.loading)

====
